---- MODULE Spec2Model ----
(***************************************************************************)
(* Model of client/node/node.go: the ShardEthereum node supervisor.        *)
(*   - NewShardInstance: the build phase (storage, then services in        *)
(*     dependency order, fail-fast on every error);                        *)
(*   - Start: StartAll under the lifecycle lock, the signal goroutine,     *)
(*     the wait on the stop channel;                                       *)
(*   - Close: storage close, StopAll, close(s.stop), under the lock;       *)
(*   - the signal goroutine's escalation loop.                             *)
(* The service registry (shared.ServiceRegistry) is a collaborator whose   *)
(* code is outside node.go; it is modelled from its contract.              *)
(***************************************************************************)
EXTENDS Integers, Sequences, FiniteSets, TLC

\* ---------------------------------------------------------------- bounds
\* Number of tasks of the embedding process that call Close directly.
MaxDirect == 1
\* Number of notifications that find sigc full and are dropped in one run.
MaxDropped == 1

\* ------------------------------------------------------ program constants
\* for i := 10; i > 0; i--
LoopStart == 10
\* sigc := make(chan os.Signal, 1)
SigcCap == 1

\* ------------------------------------------------------------ vocabulary
Roles == {"attester", "proposer", "none", "unknown"}
Direct == {"direct" \o ToString(k) : k \in 1..MaxDirect}
Closers == {"sig"} \cup Direct

VARIABLES
    actorFlag,   \* ctx.GlobalString(types.ActorFlag.Name)
    bpc,         \* position of NewShardInstance
    steps,       \* build steps performed so far, in order
    err,         \* error NewShardInstance is returning ("nil" when none)
    services,    \* registry: registered capability types, registration order
    db,          \* s.db: "nil", "open" or "closed"
    dbCloses,    \* number of calls of s.db.Close()
    calls,       \* per service type, the sequence of Start/Stop calls made
    lock,        \* holder of s.lock ("none" when free)
    stop,        \* s.stop: "open" or "closed"
    fired,       \* number of executions of close(s.stop)
    spc,         \* position of the task inside Start
    sidx,        \* StartAll's position in the registry
    cpc,         \* per Close invocation, its position
    cleft,       \* per Close invocation, services StopAll has not visited
    hstate,      \* signal goroutine: NotInstalled, Spawned, Running, ...
    i,           \* the goroutine's loop counter
    sigc,        \* notifications pending in the channel sigc
    delivered,   \* notifications delivered to the process
    dropped,     \* notifications that found sigc full
    received,    \* notifications the goroutine has taken from sigc
    warnings,    \* the "times" values logged, in order
    proc         \* process: running, forced, panicked or killed

vars == <<actorFlag, bpc, steps, err, services, db, dbCloses, calls, lock,
          stop, fired, spc, sidx, cpc, cleft, hstate, i, sigc, delivered,
          dropped, received, warnings, proc>>

buildVars == <<bpc, steps, err, services, db>>
runVars == <<dbCloses, calls, lock, stop, fired, spc, sidx, cpc, cleft,
             hstate, i, sigc, delivered, dropped, received, warnings,
             proc>>

Range(s) == {s[k] : k \in DOMAIN s}

ServiceTypes == {"p2p", "txpool", "rpcclient", "beacon", "attester", "proposer"}

\* ------------------------------------------------- registry (collaborator)
\* Register: fails with DuplicateService when the type is present, else
\* appends to the ordered sequence.
RegisterService(reg, t) ==
    IF t \in Range(reg)
    THEN [reg |-> reg, err |-> "DuplicateService"]
    ELSE [reg |-> Append(reg, t), err |-> "nil"]

\* Fetch: fails with UnregisteredService when the type is absent.
FetchService(reg, t) ==
    IF t \in Range(reg) THEN "nil" ELSE "UnregisteredService"

\* StartAll visits the services in registration order.
StartAllNext(reg, k) == reg[k]

\* StopAll visits every registered service; the order is not fixed.
StopAllNext(left) == left

\* ------------------------------------------------------------ build phase
\* Faulty variant of NextStep: the beacon service is registered before the
\* rpc client it fetches.
NextStepSwapped(step) ==
    CASE step = "startDB" -> "registerP2P"
      [] step = "registerP2P" -> "registerTXPool"
      [] step = "registerTXPool" -> "registerBeaconService"
      [] step = "registerBeaconService" -> "registerRPCClientService"
      [] step = "registerRPCClientService" -> "registerActorService"
      [] OTHER -> "done"

\* The order of the calls in NewShardInstance.
NextStep(step) ==
    CASE step = "startDB" -> "registerP2P"
      [] step = "registerP2P" -> "registerTXPool"
      [] step = "registerTXPool" -> "registerRPCClientService"
      [] step = "registerRPCClientService" -> "registerBeaconService"
      [] step = "registerBeaconService" -> "registerActorService"
      [] OTHER -> "done"

\* Faulty variant of Advance: the error of a step is not checked.
AdvanceIgnoringErr(step, e) == NextStep(step)

\* if err := ...; err != nil { return nil, err }
Advance(step, e) == IF e # "nil" THEN "failed" ELSE NextStep(step)

\* Faulty variant of TXPoolWanted: every actor gets a transaction pool.
TXPoolWantedAnyActor(actor) == actor \in {"proposer", "attester"}

\* registerTXPool's early return: if actor != "proposer" { return nil }
TXPoolWanted(actor) == actor = "proposer"

\* registerActorService's switch on the actor flag.
ActorServiceFor(actor) ==
    CASE actor = "attester" -> "attester"
      [] actor = "proposer" -> "proposer"
      [] OTHER -> "none"

\* One build step ends: record it, keep its error, move on or return.
StepDone(step, e, reg, d) ==
    /\ steps' = Append(steps, step)
    /\ err' = e
    /\ services' = reg
    /\ db' = d
    /\ bpc' = Advance(step, e)
    /\ UNCHANGED <<actorFlag, runVars>>

startDB ==
    /\ bpc = "startDB"
    /\ \E ok \in BOOLEAN :
         IF ok THEN StepDone("startDB", "nil", services, "open")
               ELSE StepDone("startDB", "dbOpen", services, db)

registerP2P ==
    /\ bpc = "registerP2P"
    /\ \E ok \in BOOLEAN :
         IF ok
         THEN LET r == RegisterService(services, "p2p")
              IN StepDone("registerP2P", r.err, r.reg, db)
         ELSE StepDone("registerP2P", "p2pNewServer", services, db)

registerTXPool ==
    /\ bpc = "registerTXPool"
    /\ IF ~TXPoolWanted(actorFlag)
       THEN StepDone("registerTXPool", "nil", services, db)
       ELSE LET f == FetchService(services, "p2p")
            IN IF f # "nil"
               THEN StepDone("registerTXPool", f, services, db)
               ELSE \E ok \in BOOLEAN :
                      IF ok
                      THEN LET r == RegisterService(services, "txpool")
                           IN StepDone("registerTXPool", r.err, r.reg, db)
                      ELSE StepDone("registerTXPool", "txpoolNew", services, db)

registerRPCClientService ==
    /\ bpc = "registerRPCClientService"
    /\ LET r == RegisterService(services, "rpcclient")
       IN StepDone("registerRPCClientService", r.err, r.reg, db)

registerBeaconService ==
    /\ bpc = "registerBeaconService"
    /\ LET f == FetchService(services, "rpcclient")
       IN IF f # "nil"
          THEN StepDone("registerBeaconService", f, services, db)
          ELSE LET r == RegisterService(services, "beacon")
               IN StepDone("registerBeaconService", r.err, r.reg, db)

registerActorService ==
    /\ bpc = "registerActorService"
    /\ LET f == FetchService(services, "beacon")
           a == ActorServiceFor(actorFlag)
       IN IF f # "nil"
          THEN StepDone("registerActorService", f, services, db)
          ELSE IF a = "none"
               THEN StepDone("registerActorService", "nil", services, db)
               ELSE LET r == RegisterService(services, a)
                    IN StepDone("registerActorService", r.err, r.reg, db)

\* NewShardInstance returned (shardEthereum, nil).
Constructed == bpc = "done"

Alive == Constructed /\ proc = "running"

\* ------------------------------------------------------------------ Start
\* Faulty variant of LockFree: Lock never waits.
LockFreeAlways(l) == TRUE

\* s.lock.Lock() returns only when nobody holds the lock.
LockFree(l) == l = "none"

\* Faulty variant of StopReadable: Start does not wait for the channel.
StopReadableAlways(ch) == TRUE

\* <-stop returns only once the channel is closed.
StopReadable(ch) == ch = "closed"

\* Faulty variant of StartLock: the signal goroutine is started before
\* StartAll, while the lock is held.
StartLockSpawning ==
    /\ Alive
    /\ spc = "idle"
    /\ LockFree(lock)
    /\ lock' = "start"
    /\ spc' = "startAll"
    /\ sidx' = 1
    /\ hstate' = "Spawned"
    /\ UNCHANGED <<actorFlag, buildVars, dbCloses, calls, stop, fired, cpc,
                   cleft, i, sigc, delivered, dropped, received, warnings, proc>>

\* Start is called: s.lock.Lock().
StartLock ==
    /\ Alive
    /\ spc = "idle"
    /\ LockFree(lock)
    /\ lock' = "start"
    /\ spc' = "startAll"
    /\ sidx' = 1
    /\ UNCHANGED <<actorFlag, buildVars, dbCloses, calls, stop, fired, cpc,
                   cleft, hstate, i, sigc, delivered, dropped, received, warnings,
             proc>>

\* s.services.StartAll(): one service's Start call.
StartStartAll ==
    /\ Alive
    /\ spc = "startAll"
    /\ sidx <= Len(services)
    /\ calls' = [calls EXCEPT ![StartAllNext(services, sidx)] = Append(@, "Start")]
    /\ sidx' = sidx + 1
    /\ UNCHANGED <<actorFlag, buildVars, dbCloses, lock, stop, fired, spc, cpc,
                   cleft, hstate, i, sigc, delivered, dropped, received, warnings,
             proc>>

\* Faulty variant of StartUnlock: Start keeps the lock while it waits.
StartUnlockKeepingLock ==
    /\ Alive
    /\ spc = "startAll"
    /\ sidx > Len(services)
    /\ spc' = "spawn"
    /\ UNCHANGED <<actorFlag, buildVars, dbCloses, calls, lock, stop, fired, sidx,
                   cpc, cleft, hstate, i, sigc, delivered, dropped, received,
                   warnings, proc>>

\* StartAll has returned: stop := s.stop; s.lock.Unlock().
StartUnlock ==
    /\ Alive
    /\ spc = "startAll"
    /\ sidx > Len(services)
    /\ lock' = "none"
    /\ spc' = "spawn"
    /\ UNCHANGED <<actorFlag, buildVars, dbCloses, calls, stop, fired, sidx, cpc,
                   cleft, hstate, i, sigc, delivered, dropped, received, warnings,
             proc>>

\* go func() { ... }(): the signal goroutine exists, not yet installed.
StartSpawn ==
    /\ Alive
    /\ spc = "spawn"
    /\ hstate' = "Spawned"
    /\ spc' = "wait"
    /\ UNCHANGED <<actorFlag, buildVars, dbCloses, calls, lock, stop, fired, sidx,
                   cpc, cleft, i, sigc, delivered, dropped, received, warnings, proc>>

\* <-stop, then Start returns.
StartWait ==
    /\ Alive
    /\ spc = "wait"
    /\ StopReadable(stop)
    /\ spc' = "returned"
    /\ UNCHANGED <<actorFlag, buildVars, dbCloses, calls, lock, stop, fired, sidx,
                   cpc, cleft, hstate, i, sigc, delivered, dropped, received, warnings,
             proc>>

\* ------------------------------------------------------------------ Close
\* A task of the embedding process calls Close.
CloseInvoke(c) ==
    /\ Alive
    /\ c \in Direct
    /\ cpc[c] = "idle"
    /\ cpc' = [cpc EXCEPT ![c] = "lock"]
    /\ UNCHANGED <<actorFlag, buildVars, dbCloses, calls, lock, stop, fired, spc,
                   sidx, cleft, hstate, i, sigc, delivered, dropped, received, warnings,
             proc>>

\* s.lock.Lock(); defer s.lock.Unlock().
CloseLock(c) ==
    /\ Alive
    /\ cpc[c] = "lock"
    /\ LockFree(lock)
    /\ lock' = c
    /\ cpc' = [cpc EXCEPT ![c] = "db"]
    /\ UNCHANGED <<actorFlag, buildVars, dbCloses, calls, stop, fired, spc, sidx,
                   cleft, hstate, i, sigc, delivered, dropped, received, warnings,
             proc>>

\* Faulty variant of CloseDB: Close forgets the storage handle.
CloseDBSkipped(c) ==
    /\ Alive
    /\ cpc[c] = "db"
    /\ cpc' = [cpc EXCEPT ![c] = "stopAll"]
    /\ cleft' = [cleft EXCEPT ![c] = Range(services)]
    /\ UNCHANGED <<actorFlag, bpc, steps, err, services, db, dbCloses, calls,
                   lock, stop, fired, spc, sidx, hstate, i, sigc, delivered, dropped,
                   received, warnings, proc>>

\* Faulty variant of CloseDB: Close returns when s.db.Close() fails.
CloseDBAbortingOnError(c) ==
    /\ Alive
    /\ cpc[c] = "db"
    /\ dbCloses' = dbCloses + 1
    /\ \E ret \in {"nil", "error", "hang"} :
         /\ db' = CASE ret = "nil" -> "closed"
                    [] ret = "error" -> "closeFailed"
                    [] OTHER -> db
         /\ cpc' = [cpc EXCEPT ![c] = CASE ret = "hang" -> "hung"
                                         [] ret = "error" -> "unlock"
                                         [] OTHER -> "stopAll"]
         /\ cleft' = [cleft EXCEPT ![c] = IF ret = "nil" THEN Range(services) ELSE @]
    /\ UNCHANGED <<actorFlag, bpc, steps, err, services, calls, lock, stop, fired,
                   spc, sidx, hstate, i, sigc, delivered, dropped, received,
                   warnings, proc>>

\* s.db.Close(): the call returns nil, returns an error, or never returns;
\* its result is discarded.
CloseDB(c) ==
    /\ Alive
    /\ cpc[c] = "db"
    /\ dbCloses' = dbCloses + 1
    /\ \E ret \in {"nil", "error", "hang"} :
         /\ db' = CASE ret = "nil" -> "closed"
                    [] ret = "error" -> "closeFailed"
                    [] OTHER -> db
         /\ cpc' = [cpc EXCEPT ![c] = IF ret = "hang" THEN "hung" ELSE "stopAll"]
         /\ cleft' = [cleft EXCEPT ![c] = IF ret = "hang" THEN @ ELSE Range(services)]
    /\ UNCHANGED <<actorFlag, bpc, steps, err, services, calls, lock, stop, fired,
                   spc, sidx, hstate, i, sigc, delivered, dropped, received, warnings,
             proc>>

\* Faulty variant of CloseStopAll: a stopped service is removed from the
\* registry.
CloseStopAllDeregistering(c) ==
    /\ Alive
    /\ cpc[c] = "stopAll"
    /\ cleft[c] # {}
    /\ \E t \in StopAllNext(cleft[c]) :
         /\ calls' = [calls EXCEPT ![t] = Append(@, "Stop")]
         /\ cleft' = [cleft EXCEPT ![c] = @ \ {t}]
         /\ services' = SelectSeq(services, LAMBDA x : x # t)
    /\ UNCHANGED <<actorFlag, bpc, steps, err, db, dbCloses, lock, stop, fired,
                   spc, sidx, cpc, hstate, i, sigc, delivered, dropped, received, warnings,
                   proc>>

\* s.services.StopAll(): one service's Stop call, which returns or hangs.
CloseStopAll(c) ==
    /\ Alive
    /\ cpc[c] = "stopAll"
    /\ cleft[c] # {}
    /\ \E t \in StopAllNext(cleft[c]), returns \in BOOLEAN :
         /\ calls' = [calls EXCEPT ![t] = Append(@, "Stop")]
         /\ IF returns
            THEN /\ cleft' = [cleft EXCEPT ![c] = @ \ {t}]
                 /\ cpc' = cpc
            ELSE /\ cleft' = cleft
                 /\ cpc' = [cpc EXCEPT ![c] = "hung"]
    /\ UNCHANGED <<actorFlag, buildVars, dbCloses, lock, stop, fired, spc, sidx,
                   hstate, i, sigc, delivered, dropped, received, warnings,
             proc>>

\* Faulty variant of CloseFire: the channel is closed without waiting for
\* StopAll to return.
CloseFireEarly(c) ==
    /\ Alive
    /\ cpc[c] = "stopAll"
    /\ fired' = fired + 1
    /\ IF stop = "closed"
       THEN /\ proc' = "panicked"
            /\ cpc' = [cpc EXCEPT ![c] = "panicked"]
            /\ stop' = stop
       ELSE /\ stop' = "closed"
            /\ cpc' = [cpc EXCEPT ![c] = "unlock"]
            /\ proc' = proc
    /\ UNCHANGED <<actorFlag, buildVars, dbCloses, calls, lock, spc, sidx, cleft,
                   hstate, i, sigc, delivered, dropped, received, warnings>>

\* StopAll has returned: log, then close(s.stop), which panics when the
\* channel is already closed.
CloseFire(c) ==
    /\ Alive
    /\ cpc[c] = "stopAll"
    /\ cleft[c] = {}
    /\ fired' = fired + 1
    /\ IF stop = "closed"
       THEN /\ proc' = "panicked"
            /\ cpc' = [cpc EXCEPT ![c] = "panicked"]
            /\ stop' = stop
       ELSE /\ stop' = "closed"
            /\ cpc' = [cpc EXCEPT ![c] = "unlock"]
            /\ proc' = proc
    /\ UNCHANGED <<actorFlag, buildVars, dbCloses, calls, lock, spc, sidx, cleft,
                   hstate, i, sigc, delivered, dropped, received, warnings>>

\* The deferred s.lock.Unlock(); Close returns.
CloseUnlock(c) ==
    /\ Alive
    /\ cpc[c] = "unlock"
    /\ lock' = "none"
    /\ cpc' = [cpc EXCEPT ![c] = "done"]
    /\ UNCHANGED <<actorFlag, buildVars, dbCloses, calls, stop, fired, spc, sidx,
                   cleft, hstate, i, sigc, delivered, dropped, received, warnings,
             proc>>

\* -------------------------------------------------------- signal goroutine
\* Faulty variant of LoopContinues: the loop ends one iteration early.
LoopContinuesOffByOne(n) == n > 1

\* The loop condition of for i := 10; i > 0; i--
LoopContinues(n) == n > 0

\* Faulty variant of SpawnedCloseBlocks: s.Close() is called without go, so
\* the goroutine waits for it to return.
SpawnedCloseBlocksUntilDone(p) == p # "done"

\* Faulty variant of SpawnedCloseBlocks: the goroutine stops receiving once
\* the Close it started has returned.
SpawnedCloseBlocksOnceDone(p) == p = "done"

\* go s.Close(): the goroutine goes on without waiting for the Close it
\* started, whatever that Close's position p.
SpawnedCloseBlocks(p) == FALSE

\* Faulty variant of Warns: the last iteration logs too.
WarnsAlways(n) == TRUE

\* if i > 1 { log.Info(..., "times", i-1) }
Warns(n) == n > 1

\* sigc := make(chan os.Signal, 1); signal.Notify(sigc, SIGINT, SIGTERM).
HandlerInstall ==
    /\ Alive
    /\ hstate = "Spawned"
    /\ hstate' = "Running"
    /\ UNCHANGED <<actorFlag, buildVars, dbCloses, calls, lock, stop, fired, spc,
                   sidx, cpc, cleft, i, sigc, delivered, dropped, received, warnings, proc>>

\* Faulty variant of Notify: sigc queues every notification.
NotifyQueueing ==
    /\ Alive
    /\ hstate \in {"NotInstalled", "Spawned"} \/ sigc <= SigcCap
    /\ delivered' = delivered + 1
    /\ IF hstate \in {"NotInstalled", "Spawned"}
       THEN /\ proc' = "killed"
            /\ sigc' = sigc
       ELSE /\ sigc' = sigc + 1
            /\ proc' = proc
    /\ UNCHANGED <<actorFlag, buildVars, dbCloses, calls, lock, stop, fired, spc,
                   sidx, cpc, cleft, hstate, i, dropped, received, warnings>>

\* The environment delivers SIGINT or SIGTERM to the process. Before
\* signal.Notify the default disposition ends the process; afterwards the
\* runtime sends to sigc without blocking and drops when sigc is full.
Notify ==
    /\ Alive
    /\ hstate \in {"NotInstalled", "Spawned"} \/ sigc < SigcCap \/ dropped < MaxDropped
    /\ delivered' = delivered + 1
    /\ IF hstate \in {"NotInstalled", "Spawned"}
       THEN /\ proc' = "killed"
            /\ sigc' = sigc
            /\ dropped' = dropped
       ELSE /\ sigc' = IF sigc < SigcCap THEN sigc + 1 ELSE sigc
            /\ dropped' = IF sigc < SigcCap THEN dropped ELSE dropped + 1
            /\ proc' = proc
    /\ UNCHANGED <<actorFlag, buildVars, dbCloses, calls, lock, stop, fired, spc,
                   sidx, cpc, cleft, hstate, i, received, warnings>>

\* The first <-sigc: log, go s.Close(), enter the loop with i = 10.
HandlerFirst ==
    /\ Alive
    /\ hstate = "Running"
    /\ sigc > 0
    /\ sigc' = sigc - 1
    /\ received' = received + 1
    /\ cpc' = [cpc EXCEPT !["sig"] = "lock"]
    /\ i' = LoopStart
    /\ IF LoopContinues(LoopStart)
       THEN /\ hstate' = "ShuttingDown"
            /\ proc' = proc
       ELSE /\ hstate' = "ForcedTermination"
            /\ proc' = "forced"
    /\ UNCHANGED <<actorFlag, buildVars, dbCloses, calls, lock, stop, fired, spc,
                   sidx, cleft, delivered, dropped, warnings>>

\* Faulty variant of HandlerNext: go s.Close() is inside the loop, so every
\* notification starts Close again.
HandlerNextRestartingClose ==
    /\ Alive
    /\ hstate = "ShuttingDown"
    /\ ~SpawnedCloseBlocks(cpc["sig"])
    /\ sigc > 0
    /\ sigc' = sigc - 1
    /\ received' = received + 1
    /\ cpc' = [cpc EXCEPT !["sig"] = "lock"]
    /\ warnings' = IF Warns(i) THEN Append(warnings, i - 1) ELSE warnings
    /\ i' = i - 1
    /\ IF LoopContinues(i - 1)
       THEN /\ hstate' = hstate
            /\ proc' = proc
       ELSE /\ hstate' = "ForcedTermination"
            /\ proc' = "forced"
    /\ UNCHANGED <<actorFlag, buildVars, dbCloses, calls, lock, stop, fired, spc,
                   sidx, cleft, delivered, dropped>>

\* One iteration of the loop: <-sigc, the warning, i--, and, when the loop
\* ends, debug.Exit() and the panic.
HandlerNext ==
    /\ Alive
    /\ hstate = "ShuttingDown"
    /\ ~SpawnedCloseBlocks(cpc["sig"])
    /\ sigc > 0
    /\ sigc' = sigc - 1
    /\ received' = received + 1
    /\ warnings' = IF Warns(i) THEN Append(warnings, i - 1) ELSE warnings
    /\ i' = i - 1
    /\ IF LoopContinues(i - 1)
       THEN /\ hstate' = hstate
            /\ proc' = proc
       ELSE /\ hstate' = "ForcedTermination"
            /\ proc' = "forced"
    /\ UNCHANGED <<actorFlag, buildVars, dbCloses, calls, lock, stop, fired, spc,
                   sidx, cpc, cleft, delivered, dropped>>

\* ---------------------------------------------------------- specification
Init ==
    /\ actorFlag \in Roles
    /\ bpc = "startDB"
    /\ steps = <<>>
    /\ err = "nil"
    /\ services = <<>>
    /\ db = "nil"
    /\ dbCloses = 0
    /\ calls = [t \in ServiceTypes |-> <<>>]
    /\ lock = "none"
    /\ stop = "open"
    /\ fired = 0
    /\ spc = "idle"
    /\ sidx = 1
    /\ cpc = [c \in Closers |-> "idle"]
    /\ cleft = [c \in Closers |-> {}]
    /\ hstate = "NotInstalled"
    /\ i = 0
    /\ sigc = 0
    /\ delivered = 0
    /\ dropped = 0
    /\ received = 0
    /\ warnings = <<>>
    /\ proc = "running"

Next ==
    \/ startDB
    \/ registerP2P
    \/ registerTXPool
    \/ registerRPCClientService
    \/ registerBeaconService
    \/ registerActorService
    \/ StartLock
    \/ StartStartAll
    \/ StartUnlock
    \/ StartSpawn
    \/ StartWait
    \/ \E c \in Closers : CloseInvoke(c)
    \/ \E c \in Closers : CloseLock(c)
    \/ \E c \in Closers : CloseDB(c)
    \/ \E c \in Closers : CloseStopAll(c)
    \/ \E c \in Closers : CloseFire(c)
    \/ \E c \in Closers : CloseUnlock(c)
    \/ HandlerInstall
    \/ Notify
    \/ HandlerFirst
    \/ HandlerNext

Spec == Init /\ [][Next]_vars

\* The Go scheduler runs every runnable goroutine: each step of the program
\* that stays enabled is eventually taken. The environment (notifications,
\* the embedding process calling Start or Close) is under no obligation.
Fairness ==
    /\ WF_vars(StartStartAll)
    /\ WF_vars(StartUnlock)
    /\ WF_vars(StartSpawn)
    /\ WF_vars(StartWait)
    /\ \A c \in Closers : WF_vars(CloseLock(c))
    /\ \A c \in Closers : WF_vars(CloseDB(c))
    /\ \A c \in Closers : WF_vars(CloseStopAll(c))
    /\ \A c \in Closers : WF_vars(CloseFire(c))
    /\ \A c \in Closers : WF_vars(CloseUnlock(c))
    /\ WF_vars(HandlerInstall)
    /\ WF_vars(HandlerFirst)
    /\ WF_vars(HandlerNext)

LiveSpec == Init /\ [][Next]_vars /\ Fairness

\* ------------------------------------------------------------ properties
Count(seq, x) == Cardinality({k \in DOMAIN seq : seq[k] = x})

Invoked == {c \in Closers : cpc[c] # "idle"}

\* A Close that has executed close(s.stop) without panicking.
HasFired(c) == cpc[c] \in {"unlock", "done"}

\* C1: Start has returned only if some Close has been invoked and has
\* executed its close of the stop channel; with no Close invoked Start has
\* not returned.
StartReturnsOnlyAfterClose ==
    spc = "returned" =>
        /\ fired >= 1
        /\ stop = "closed"
        /\ \E c \in Invoked : HasFired(c)

StartReturnedAfterSignalClose ==
    /\ spc = "returned"
    /\ cpc["sig"] = "done"
    /\ \A c \in Direct : cpc[c] = "idle"

\* C2 as stated: the goroutine is in ForcedTermination exactly when it has
\* received 10 notifications; with 1 to 9 received it is in ShuttingDown.
ForcedOnTenthNotification ==
    /\ hstate = "ForcedTermination" <=> received = 10
    /\ received \in 1..9 => hstate = "ShuttingDown"
    /\ received <= 10

\* C2 amended: the goroutine is in ForcedTermination exactly when it has
\* received 11 notifications; the 1st moves Running to ShuttingDown and
\* starts Close, with 1 to 10 received it is in ShuttingDown, and no 12th
\* is ever received.
ForcedOnEleventhNotification ==
    /\ hstate = "ForcedTermination" <=> received = 11
    /\ received \in 1..10 => (hstate = "ShuttingDown" /\ cpc["sig"] # "idle")
    /\ received = 0 => (hstate \in {"NotInstalled", "Spawned", "Running"}
                        /\ cpc["sig"] = "idle")
    /\ received <= 11

ForcedWhileCloseIncomplete ==
    /\ hstate = "ForcedTermination"
    /\ received = 11
    /\ cpc["sig"] \in {"lock", "hung"}

\* C3: close(s.stop) is executed at most once in every execution.
StopFiredAtMostOnce == fired <= 1

\* C4: while a Close hangs holding the lifecycle lock, every notification
\* pending in sigc is still received by the goroutine (the count goes down
\* by one), and the one received with i = 1 brings ForcedTermination.
SomeCloseHung == \E c \in Closers : cpc[c] = "hung"

OperatorCanForceExit ==
    (SomeCloseHung /\ hstate = "ShuttingDown" /\ sigc > 0)
        ~> (sigc = 0 /\ (i = 0 => hstate = "ForcedTermination"))

ForcedWithHungClose ==
    /\ cpc["sig"] = "hung"
    /\ lock = "sig"
    /\ hstate = "ForcedTermination"

\* C5: once StartAll has run and exactly one Close has been invoked and has
\* completed, s.db.Close() has been called exactly once and every
\* registered service has had exactly one Stop call.
CloseOnceStopsEachOnce ==
    (/\ spc \in {"spawn", "wait", "returned"}
     /\ Cardinality(Invoked) = 1
     /\ \E c \in Invoked : cpc[c] = "done")
    => /\ dbCloses = 1
       /\ \A t \in Range(services) : Count(calls[t], "Stop") = 1
       /\ \A t \in ServiceTypes \ Range(services) : calls[t] = <<>>

OneCloseCompleted ==
    /\ spc = "returned"
    /\ cpc["sig"] = "done"
    /\ Cardinality(Invoked) = 1
    /\ dbCloses = 1
    /\ Len(services) = 4

\* C6: a successful construction has registered, in this order,
\* [p2p, rpcclient, beacon, attester] for role attester,
\* [p2p, txpool, rpcclient, beacon, proposer] for role proposer, and
\* [p2p, rpcclient, beacon] for any other role; construction fails only when
\* a collaborator's constructor fails.
ExpectedServices(role) ==
    CASE role = "attester" -> <<"p2p", "rpcclient", "beacon", "attester">>
      [] role = "proposer" -> <<"p2p", "txpool", "rpcclient", "beacon", "proposer">>
      [] OTHER -> <<"p2p", "rpcclient", "beacon">>

ServicesFollowRole ==
    /\ Constructed => services = ExpectedServices(actorFlag)
    /\ bpc = "failed" => err \in {"dbOpen", "p2pNewServer", "txpoolNew"}
    /\ err = "txpoolNew" => actorFlag = "proposer"

ProposerConstructed ==
    /\ Constructed
    /\ actorFlag = "proposer"
    /\ services = <<"p2p", "txpool", "rpcclient", "beacon", "proposer">>

\* C7: when a build step fails construction returns the error at once: no
\* supervisor exists (nothing of Start, Close or the goroutine has run), the
\* failing step is the last step performed, and a storage-open failure
\* leaves no service registered.
BuildOrder ==
    <<"startDB", "registerP2P", "registerTXPool", "registerRPCClientService",
      "registerBeaconService", "registerActorService">>

NoSupervisor ==
    /\ spc = "idle"
    /\ Invoked = {}
    /\ hstate = "NotInstalled"
    /\ delivered = 0

ConstructionFailsFast ==
    /\ steps = SubSeq(BuildOrder, 1, Len(steps))
    /\ err # "nil" =>
          /\ bpc = "failed"
          /\ NoSupervisor
          /\ err = "dbOpen" => (steps = <<"startDB">> /\ services = <<>> /\ db = "nil")
          /\ err = "p2pNewServer" => (Len(steps) = 2 /\ services = <<>>)
          /\ err = "txpoolNew" => (Len(steps) = 3 /\ services = <<"p2p">>)
    /\ bpc = "failed" => err # "nil"

StorageOpenFailed ==
    /\ bpc = "failed"
    /\ err = "dbOpen"
    /\ services = <<>>

\* C8: at most one task is inside a lock-protected body (Start's StartAll,
\* or a Close between its Lock and its Unlock), and that task is the one
\* the lock records as its holder.
InBody(task) ==
    IF task = "start" THEN spc = "startAll"
    ELSE cpc[task] \in {"db", "stopAll", "unlock", "hung"}

LifecycleBodiesExclusive ==
    /\ Cardinality({task \in Closers \cup {"start"} : InBody(task)}) <= 1
    /\ \A task \in Closers \cup {"start"} : InBody(task) => lock = task

CloseBodyWhileOtherWaits ==
    /\ cpc["sig"] = "stopAll"
    /\ \E c \in Direct : cpc[c] = "lock"

\* C9: the build phase never ends in UnregisteredService or
\* DuplicateService, the only failures are those of the collaborators'
\* constructors, and each service is registered after the service it
\* depends on.
Before(a, b) ==
    \A m, n \in DOMAIN services :
        (services[m] = a /\ services[n] = b) => m < n

Depends(a, b) == b \in Range(services) => (a \in Range(services) /\ Before(a, b))

BuildRespectsDependencies ==
    /\ err \in {"nil", "dbOpen", "p2pNewServer", "txpoolNew"}
    /\ Depends("p2p", "txpool")
    /\ Depends("rpcclient", "beacon")
    /\ Depends("beacon", "attester")
    /\ Depends("beacon", "proposer")
    /\ Cardinality(Range(services)) = Len(services)

AttesterAfterBeacon ==
    /\ Constructed
    /\ actorFlag = "attester"
    /\ "attester" \in Range(services)

\* C10: after construction has returned no step changes the registry.
RegistryFrozenAfterConstruction == [][Constructed => services' = services]_vars

RegistryTraversedTwice ==
    /\ Constructed
    /\ spc = "returned"
    /\ \E c \in Closers : cpc[c] = "done"
    /\ Len(services) = 5


\* C11: the calls made to each service are a prefix of [Start, Stop].
ServiceCallsPrefixOfStartStop ==
    \A t \in ServiceTypes : calls[t] \in {<<>>, <<"Start">>, <<"Start", "Stop">>}

\* C12: every Close goes lock, storage close, StopAll, close of the stop
\* channel, unlock, in this order and holding the lock: the storage handle
\* is closed by the step that leaves "db", a Stop call is made only by the
\* lock holder after that step, the stop channel is closed only once every
\* registered service's Stop has returned, and the lock is released only
\* after the close.
CloseOrder ==
    {<<"idle", "lock">>, <<"lock", "db">>, <<"db", "stopAll">>, <<"db", "hung">>,
     <<"stopAll", "hung">>, <<"stopAll", "unlock">>, <<"stopAll", "panicked">>,
     <<"unlock", "done">>}

StopCalledInStep ==
    \E t \in ServiceTypes :
        /\ Len(calls'[t]) = Len(calls[t]) + 1
        /\ calls'[t][Len(calls'[t])] = "Stop"

CloseStepsInOrder ==
    [][/\ \A c \in Closers :
            /\ cpc'[c] # cpc[c] => <<cpc[c], cpc'[c]>> \in CloseOrder
            /\ (cpc[c] = "db" /\ cpc'[c] # "db") =>
                  (lock = c /\ dbCloses' = dbCloses + 1 /\ calls' = calls)
            /\ (lock = c /\ lock' # c) => (cpc[c] = "unlock" /\ stop = "closed")
       /\ dbCloses' # dbCloses => \E c \in Closers : lock = c /\ cpc[c] = "db"
       /\ StopCalledInStep =>
            \E c \in Closers : lock = c /\ cpc[c] = "stopAll" /\ fired' = fired
       /\ fired' # fired =>
            \E c \in Closers :
                /\ lock = c /\ lock' = c
                /\ cpc[c] = "stopAll"
                /\ cleft[c] = {}
                /\ \A t \in Range(services) : Count(calls[t], "Stop") >= 1]_vars

CloseFiredAfterAllStops ==
    /\ cpc["sig"] = "unlock"
    /\ lock = "sig"
    /\ stop = "closed"
    /\ db = "closed"
    /\ \A t \in Range(services) : calls[t] = <<"Start", "Stop">>


\* C13: the signal goroutine exists only once StartAll has returned and
\* Start has released the lock; until then no notification is queued or
\* received and the goroutine's Close is not started, so that Close begins
\* only after every registered service's Start call has returned.
HandlerInstalledAfterStartAll ==
    /\ hstate # "NotInstalled" =>
          /\ spc \in {"wait", "returned"}
          /\ lock # "start"
          /\ sidx > Len(services)
    /\ spc \in {"idle", "startAll", "spawn"} =>
          (received = 0 /\ sigc = 0 /\ cpc["sig"] = "idle")
    /\ cpc["sig"] # "idle" =>
          \A t \in Range(services) : Count(calls[t], "Start") = 1

NotificationDuringStartAll ==
    /\ spc = "startAll"
    /\ sidx > 1
    /\ delivered = 1
    /\ received = 0
    /\ cpc["sig"] = "idle"


\* C14: Start does not hold the lock while it waits, and a Close invoked
\* while Start waits leads to Start returning, unless a storage close or a
\* Stop hangs or the process is ended first (forced termination, panic).
GracefulShutdownCompletes ==
    /\ [](spc = "wait" => lock # "start")
    /\ (spc = "wait" /\ \E c \in Closers : cpc[c] = "lock")
          ~> (spc = "returned" \/ SomeCloseHung \/ proc # "running")

StartReturnedAfterDirectClose ==
    /\ spc = "returned"
    /\ \E c \in Direct : cpc[c] = "done"
    /\ cpc["sig"] = "idle"
    /\ lock = "none"
    /\ proc = "running"


\* C15: the goroutine's Close is started by the first notification and by
\* no other step; a later notification leaves that Close where it is; the
\* goroutine's state never moves backwards (NotInstalled, Spawned, Running,
\* ShuttingDown, ForcedTermination).
Rank(h) ==
    CASE h = "NotInstalled" -> 0
      [] h = "Spawned" -> 1
      [] h = "Running" -> 2
      [] h = "ShuttingDown" -> 3
      [] OTHER -> 4

HandlerStartsCloseOnce ==
    [][/\ (cpc'["sig"] = "lock" /\ cpc["sig"] # "lock") =>
             /\ cpc["sig"] = "idle"
             /\ received = 0 /\ received' = 1
             /\ hstate = "Running" /\ hstate' = "ShuttingDown"
       /\ (received' # received /\ received >= 1) =>
             (hstate = "ShuttingDown" /\ cpc'["sig"] = cpc["sig"])
       /\ cpc["sig"] # "idle" => cpc'["sig"] # "idle"
       /\ Rank(hstate') >= Rank(hstate)]_vars

HandlerCountsWhileCloseWaits ==
    /\ hstate = "ShuttingDown"
    /\ received = 3
    /\ cpc["sig"] = "lock"


\* C16: the k-th warning is logged by notification k+1 and carries
\* N = 11 - (k+1), the number of further notifications after which the
\* goroutine is in ForcedTermination; the values go down by one (9, 8, ...,
\* 1); while ShuttingDown the last value logged is the number of receives
\* still needed; the notification that forces termination logs nothing.
WarningsCountDown ==
    /\ \A k \in DOMAIN warnings : warnings[k] = 11 - (k + 1)
    /\ hstate = "ShuttingDown" =>
          /\ Len(warnings) = received - 1
          /\ i = 11 - received
          /\ warnings # <<>> => warnings[Len(warnings)] = i
    /\ hstate = "ForcedTermination" =>
          /\ Len(warnings) = received - 2
          /\ warnings[Len(warnings)] = 1
    /\ hstate \notin {"ShuttingDown", "ForcedTermination"} => warnings = <<>>

ThreeWarningsLogged ==
    /\ hstate = "ShuttingDown"
    /\ warnings = <<9, 8, 7>>
    /\ received = 4


\* C17: once a Close is stuck in a Stop call that never returns, it stays
\* there holding the lock, the stop channel is not closed, Start does not
\* return, no other Close gets past its Lock, and no further storage close
\* or Stop call is made; only the goroutine and the environment still move.
HungInStop(c) == cpc[c] = "hung" /\ cleft[c] # {}

HungStopStallsShutdown ==
    [][\A h \in Closers :
          HungInStop(h) =>
             /\ cpc'[h] = "hung"
             /\ lock = h /\ lock' = h
             /\ fired' = fired /\ stop' = stop
             /\ ~(spc # "returned" /\ spc' = "returned")
             /\ \A c \in Closers \ {h} : cpc'[c] \in {cpc[c], "lock"}
             /\ dbCloses' = dbCloses /\ calls' = calls]_vars


\* C18: a Close whose s.db.Close() returned an error goes on to StopAll
\* over every registered service, and a failed storage close seen while
\* Start waits leads to Start returning, unless a Stop hangs or the process
\* is ended first.
StorageCloseFailureIgnored ==
    /\ [][\A c \in Closers :
             (/\ cpc[c] = "db"
              /\ cpc'[c] \notin {"db", "hung"}
              /\ db' = "closeFailed") =>
                 (cpc'[c] = "stopAll" /\ cleft'[c] = Range(services))]_vars
    /\ (db = "closeFailed" /\ spc = "wait")
          ~> (spc = "returned" \/ SomeCloseHung \/ proc # "running")

StartReturnedAfterFailedStorageClose ==
    /\ spc = "returned"
    /\ db = "closeFailed"
    /\ dbCloses = 1
    /\ stop = "closed"
    /\ \A t \in Range(services) : calls[t] = <<"Start", "Stop">>


\* C19: the loop counter is the same function of the number of
\* notifications received whatever the position of Close; a step that
\* receives nothing (a step of Start, of a Close, of the environment)
\* changes neither the counter nor the goroutine's state once installed;
\* and after its Close has completed and Start has returned the goroutine
\* still receives every pending notification, unless the process is ended
\* first (the panic of a second Close).
EscalationIndependentOfClose ==
    /\ [](hstate = "ShuttingDown" => i = LoopStart + 1 - received)
    /\ [][received' = received =>
             /\ i' = i
             /\ warnings' = warnings
             /\ hstate' = hstate \/ hstate \in {"NotInstalled", "Spawned"}]_vars
    /\ (hstate = "ShuttingDown" /\ sigc > 0 /\ cpc["sig"] = "done"
        /\ spc = "returned")
          ~> (sigc = 0 \/ proc # "running")

ForcedAfterCloseCompleted ==
    /\ hstate = "ForcedTermination"
    /\ received = 11
    /\ cpc["sig"] = "done"
    /\ spc = "returned"


\* C20: sigc holds at most one notification; every notification delivered
\* is received, pending or dropped (or, before the goroutine is installed,
\* ends the process), so the goroutine never counts more than were
\* delivered, and counts fewer when one was dropped.
SigcHoldsAtMostOne ==
    /\ sigc \in {0, 1}
    /\ received <= delivered
    /\ delivered = received + sigc + dropped + (IF proc = "killed" THEN 1 ELSE 0)
    /\ dropped > 0 => received < delivered

NotificationLostForGood ==
    /\ hstate = "ForcedTermination"
    /\ received = 11
    /\ delivered = 12
    /\ dropped = 1
    /\ sigc = 0

====
